---- MODULE Spec2Model ----
(***************************************************************************)
(* panafit: the /upload handler of src/main.rs and the worker-thread step  *)
(* create_nutrional_facts_file, over a model of the server's working       *)
(* directory.  Several upload requests run concurrently (axum serves each  *)
(* request as its own task).                                               *)
(***************************************************************************)
EXTENDS Integers, Sequences, FiniteSets, TLC

\* ------------------------------------------------------------- bounds
NumReqs   == 2      \* upload requests in flight
MaxChunks == 2      \* buffer-sized chunks in one uploaded file
MaxEdits  == 2      \* edits applied to the two lookup documents (SpecFormat)

Reqs == 1..NumReqs

\* ------------------------------------------------- the working directory
\* File names a client can send that resolve to a directory entry.  The empty
\* name resolves to none (open("") is ENOENT).
Names == {"a.png", "pepe.png", "res.json"}
ClientNames == Names \cup {""}

\* Contents are sequences of chunks.  "bar": image bytes showing a barcode,
\* "junk": other image bytes, "zero": the hole left by a write past the end.
Chunks == {"bar", "junk"}
\* Uploaded bodies: the first chunk shows a barcode or not, the rest does not.
DataSet == {d \in UNION {[1..n -> Chunks] : n \in 0..MaxChunks} :
                \A i \in 2..Len(d) : d[i] = "junk"}
PepeBytes == <<"pepe">>

\* One inode for pepe.png and at most two more per request (File::create,
\* fs::write).
MaxInode == 1 + NumReqs + NumReqs

\* ------------------------------------------------------------ responses
\* A response body is a sequence of pieces; <<>> is "no response".
OnlyImages == <<"<p>Please upload only images.</p>">>
Generic == <<"could not read file, make sure it is a valid image!">>
NoFile == <<"<ENOENT>">>

\* --------------------------------------------------- the lookup document
\* The locations of the product document that matter, as slots:
\*   product      "obj" | "other"    result_json["product"] is an object or not
\*   images       "obj" | "other"    product.selected_images.front.display
\*   nutriments   "obj" | "other"    product.nutriments
\*   en, serving_size, kcal, carbs, proteins, fat, product_name:
\*                "absent" | "null" | "1" (the number 1) | "s" (the string "s")
Kinds == {"obj", "other"}
Leaves == {"absent", "null", "1", "s"}
KindSlots == {"product", "images", "nutriments"}
LeafSlots == {"en", "serving_size", "kcal", "carbs", "proteins", "fat", "product_name"}

BaseDoc == [product |-> "obj", images |-> "obj", nutriments |-> "obj",
            en |-> "s", serving_size |-> "s", kcal |-> "1", carbs |-> "1",
            proteins |-> "1", fat |-> "1", product_name |-> "s"]
EmptyDoc == [product |-> "other", images |-> "other", nutriments |-> "other",
            en |-> "absent", serving_size |-> "absent", kcal |-> "absent",
            carbs |-> "absent", proteins |-> "absent", fat |-> "absent",
            product_name |-> "absent"]

\* serde_json's Index: a missing key, or indexing a non-object, yields Null.
Index(parentIsObj, leaf) ==
    IF parentIsObj /\ leaf # "absent" THEN leaf ELSE "null"

selected_image(d) == Index(d.product = "obj" /\ d.images = "obj", d.en)
serving_size(d) == Index(d.product = "obj", d.serving_size)
calories_per(d) == Index(d.product = "obj" /\ d.nutriments = "obj", d.kcal)
carbs_per(d) == Index(d.product = "obj" /\ d.nutriments = "obj", d.carbs)
protein_per(d) == Index(d.product = "obj" /\ d.nutriments = "obj", d.proteins)
fats_per(d) == Index(d.product = "obj" /\ d.nutriments = "obj", d.fat)

\* Display of a serde_json Value: compact JSON, strings keep their quotes.
Display(v) ==
    CASE v = "null" -> "null"
      [] v = "1" -> "1"
      [] v = "s" -> "\"s\""

\* FormatHtml with the image taken from another key of the product.
FormatHtmlOtherKey(d) ==
    << "<img src=", Display(Index(d.product = "obj", d.product_name)),
       " width=25% height=auto>",
       "<h1><b>Tamano de serving</b>: ", Display(serving_size(d)), "<br>",
       "<b>Valores nutricionales (por serving)</b>:<br>",
       "<b>Calorias (kcal)</b>: ", Display(calories_per(d)), "<br>",
       "<b>Carbohidratos</b>: ", Display(carbs_per(d)), "g<br>",
       "<b>Proteina</b>: ", Display(protein_per(d)), "<br>",
       "<b>Grasa</b>: ", Display(fats_per(d)), "g</h1>" >>

\* The format! template of create_nutrional_facts_file, piece by piece (its
\* fixed text without accents and line breaks).
FormatHtml(d) ==
    << "<img src=", Display(selected_image(d)), " width=25% height=auto>",
       "<h1><b>Tamano de serving</b>: ", Display(serving_size(d)), "<br>",
       "<b>Valores nutricionales (por serving)</b>:<br>",
       "<b>Calorias (kcal)</b>: ", Display(calories_per(d)), "<br>",
       "<b>Carbohidratos</b>: ", Display(carbs_per(d)), "g<br>",
       "<b>Proteina</b>: ", Display(protein_per(d)), "<br>",
       "<b>Grasa</b>: ", Display(fats_per(d)), "g</h1>" >>

\* The values create_nutrional_facts_file extracts, in the order of its lets.
Fields == <<"selected_image", "serving_size", "calories_per", "carbs_per",
            "protein_per", "fats_per">>
Extract(d) == [selected_image |-> selected_image(d), serving_size |-> serving_size(d),
               calories_per |-> calories_per(d), carbs_per |-> carbs_per(d),
               protein_per |-> protein_per(d), fats_per |-> fats_per(d)]
\* The positions in Fields at which two documents' extracted values differ.
Differ(a, b) == {i \in DOMAIN Fields : Extract(a)[Fields[i]] # Extract(b)[Fields[i]]}

\* The documents the product database answers with, by id.
DocIds == {"d_full"}
DocOf(id) == IF id = "d_full" THEN BaseDoc ELSE EmptyDoc

\* rxing::helpers::detect_in_file on the bytes of a file: a barcode is found
\* when the image starts with bytes that show one.
HasBarcode(c) == Len(c) >= 1 /\ c[1] = "bar"

\* content_type.starts_with("image/"), content types split at "/".
StartsWithImage(ct) == Len(ct) >= 2 /\ ct[1] = "image"
ContentTypes == {<<>>, <<"image", "png">>, <<"text", "plain">>}
FNames == {<<>>} \cup {<<n>> : n \in ClientNames}

VARIABLES
    dir,        \* name -> inode (0: no such file)
    content,    \* inode -> contents
    nextInode,  \* next inode to allocate
    pc,         \* request -> position in upload / in the worker
    local,      \* request -> upload's locals: file_name, file_data, response, ...
    file,       \* request -> the tokio File opened by upload
    response,   \* request -> body returned to the client (<<>>: none)
    log,        \* request -> the steps taken, in order
    touched,    \* request -> inodes the request created or wrote
    pre,        \* request -> the server's own files still intact when it began
    docA, docB, \* the documents two lookups answered with (SpecFormat)
    edits,      \* how many slots they have been changed at
    shown       \* how many of Fields have been shown to decide the HTML

fsvars == <<dir, content, nextInode>>
histvars == <<response, log, touched, pre>>
fmtvars == <<docA, docB, edits, shown>>
vars == <<dir, content, nextInode, pc, local, file, response, log, touched, pre,
          docA, docB, edits, shown>>

\* file_name = String::new(), file_data = Vec::new(); sent counts the chunks
\* write_all has handed to the File, docid is the lookup's response, response
\* the worker's result.
InitLocal == [file_name |-> "", file_data |-> <<>>, sent |-> 0, docid |-> "",
              response |-> <<>>]
\* No File: ino is the inode of the open File, pos its offset, inflight the
\* chunk a blocking task is still writing, err the error of its last write.
Closed == [ino |-> 0, pos |-> 0, inflight |-> <<>>, err |-> FALSE]

\* What the directory shows: name -> contents, NoFile when absent.
View == [n \in Names |-> IF dir[n] = 0 THEN NoFile ELSE content[dir[n]]]

\* The directory the server starts in: pepe.png (served at /pepe), and the
\* names of the files in it that are as they were then.
InitDir == [n \in Names |-> IF n = "pepe.png" THEN 1 ELSE 0]
InitView == [n \in Names |-> IF n = "pepe.png" THEN PepeBytes ELSE NoFile]
Intact == {n \in Names : InitView[n] # NoFile /\ View[n] = InitView[n]}

InitFs ==
    /\ dir = InitDir
    /\ content = [i \in 1..MaxInode |-> IF i = 1 THEN PepeBytes ELSE <<>>]
    /\ nextInode = 2

InitReqs ==
    /\ pc = [r \in Reqs |-> "idle"]
    /\ local = [r \in Reqs |-> InitLocal]
    /\ file = [r \in Reqs |-> Closed]
    /\ response = [r \in Reqs |-> <<>>]
    /\ log = [r \in Reqs |-> <<>>]
    /\ touched = [r \in Reqs |-> {}]
    /\ pre = [r \in Reqs |-> {}]

InitFmt == docA = BaseDoc /\ docB = BaseDoc /\ edits = 0 /\ shown = 0

Init == InitFs /\ InitReqs /\ InitFmt

Has(r, ev) == \E i \in DOMAIN log[r] : log[r][i] = ev
Notes(r, evs) == log' = [log EXCEPT ![r] = @ \o evs]
Goto(r, where) == pc' = [pc EXCEPT ![r] = where]
Ended(r) == pc[r] \in {"done", "aborted"}

\* The handler ends: its locals are dropped.  A File with a write still in
\* flight is closed only when that write is over.
Ends(r, how) ==
    /\ pc' = [pc EXCEPT ![r] = how]
    /\ local' = [local EXCEPT ![r] = InitLocal]
    /\ file' = [file EXCEPT ![r] = IF @.inflight = <<>> THEN Closed ELSE @]

\* A panic in the handler (an unwrap of None / Err): the task is dropped and
\* the connection closes without a response.
Panic(r) == Ends(r, "aborted")

\* return Html(body)
Return(r, body) ==
    /\ Ends(r, "done")
    /\ response' = [response EXCEPT ![r] = body]

\* upload is entered.  Requests are interchangeable: they are numbered in the
\* order they arrive.
Begin(r) ==
    /\ pc[r] = "idle"
    /\ \A q \in Reqs : q < r => pc[q] # "idle"
    /\ Goto(r, "loop")
    /\ pre' = [pre EXCEPT ![r] = Intact]
    /\ UNCHANGED <<local, file, response, log, touched>>
    /\ UNCHANGED fsvars /\ UNCHANGED fmtvars

\* multipart.next_field() fails (a malformed body): the unwrap panics.
NextFieldErr(r) ==
    /\ pc[r] = "loop"
    /\ Panic(r)
    /\ Notes(r, <<"malformed">>)
    /\ UNCHANGED <<response, touched, pre>>
    /\ UNCHANGED fsvars /\ UNCHANGED fmtvars

\* One iteration of the while-let loop over a field with file name fn and
\* content type ct (<<>> is None), whose body reads (ok) or fails to read.
Iteration(r, fn, ct, ok, data) ==
    /\ pc[r] = "loop"
    /\ LET seen == IF ct # <<>> /\ ~StartsWithImage(ct) THEN <<"nonimage">>
                   ELSE IF ct # <<>> /\ ~Has(r, "image") THEN <<"image">>
                   ELSE <<>> IN
       IF fn = <<>> \/ ct = <<>> \/ ~ok
         THEN /\ Panic(r)
              /\ Notes(r, IF fn # <<>> /\ ct # <<>> THEN seen \o <<"malformed">> ELSE seen)
              /\ UNCHANGED response
         ELSE IF ~StartsWithImage(ct)
         THEN /\ Return(r, OnlyImages)
              /\ Notes(r, seen \o <<"respond">>)
         ELSE /\ local' = [local EXCEPT ![r].file_name = fn[1], ![r].file_data = data]
              /\ Notes(r, seen)
              /\ UNCHANGED <<pc, file, response>>
    /\ UNCHANGED <<touched, pre>>
    /\ UNCHANGED fsvars /\ UNCHANGED fmtvars

NextField(r) ==
    \E fn \in FNames, ct \in ContentTypes, ok \in BOOLEAN, data \in DataSet :
        Iteration(r, fn, ct, ok, data)

\* next_field() returns None: the loop ends.
EndOfFields(r) ==
    /\ pc[r] = "loop"
    /\ Goto(r, "create")
    /\ Notes(r, <<"fields_read">>)
    /\ UNCHANGED <<local, file, response, touched, pre>>
    /\ UNCHANGED fsvars /\ UNCHANGED fmtvars

\* open(name, O_WRONLY|O_CREAT|O_TRUNC): the inode name resolves to afterwards.
CreatedInode(name) == IF dir[name] = 0 THEN nextInode ELSE dir[name]

\* tokio::fs::File::create(file_name).await.unwrap()
Create(r) ==
    /\ pc[r] = "create"
    /\ IF local[r].file_name \notin Names
         THEN /\ Panic(r)
              /\ UNCHANGED <<touched, log>>
              /\ UNCHANGED fsvars
         ELSE LET name == local[r].file_name
                  i == CreatedInode(name) IN
              /\ i <= MaxInode
              /\ dir' = [dir EXCEPT ![name] = i]
              /\ content' = [content EXCEPT ![i] = <<>>]
              /\ nextInode' = IF dir[name] = 0 THEN nextInode + 1 ELSE nextInode
              /\ file' = [file EXCEPT ![r] = [Closed EXCEPT !.ino = i]]
              /\ touched' = [touched EXCEPT ![r] = @ \cup {i}]
              /\ Notes(r, <<"create">>)
              /\ Goto(r, "write")
              /\ UNCHANGED local
    /\ UNCHANGED <<response, pre>>
    /\ UNCHANGED fmtvars

\* tokio's File::poll_write, as write_all drives it.  With the File idle it
\* copies the next chunk into the File's buffer, starts a blocking task that
\* writes it, and returns at once; with a task still running it waits for it,
\* and returns the task's error if it failed.
PollWrite(r) ==
    /\ pc[r] = "write"
    /\ local[r].sent < Len(local[r].file_data)
    /\ file[r].inflight = <<>>
    /\ IF file[r].err
         THEN Panic(r)
         ELSE /\ file' = [file EXCEPT ![r].inflight = <<local[r].file_data[local[r].sent + 1]>>]
              /\ local' = [local EXCEPT ![r].sent = @ + 1]
              /\ UNCHANGED pc
    /\ UNCHANGED histvars /\ UNCHANGED fsvars /\ UNCHANGED fmtvars

Linked(i) == \E n \in Names : dir[n] = i

\* Contents c after a write of chunk ch at offset p.
WriteAt(c, p, ch) ==
    [i \in 1..(IF Len(c) > p + 1 THEN Len(c) ELSE p + 1) |->
        IF i = p + 1 THEN ch ELSE IF i <= Len(c) THEN c[i] ELSE "zero"]

\* The blocking task of the File writes its chunk (or fails to).  Nothing
\* waits for it unless poll_write is called again: the source never flushes.
\* The write reaches the inode whether or not a name still leads to it.
WriteComplete(r) ==
    /\ file[r].inflight # <<>>
    /\ \E ok \in BOOLEAN :
         /\ file' = [file EXCEPT ![r] =
                        IF Ended(r) THEN Closed
                        ELSE [@ EXCEPT !.inflight = <<>>,
                                       !.pos = IF ok THEN @ + 1 ELSE @,
                                       !.err = ~ok]]
         /\ content' = IF ok /\ Linked(file[r].ino)
                         THEN [content EXCEPT ![file[r].ino] =
                                  WriteAt(@, file[r].pos, file[r].inflight[1])]
                         ELSE content
    /\ UNCHANGED <<dir, nextInode, pc, local, response, log, touched, pre>>
    /\ UNCHANGED fmtvars

\* The JoinHandle's Err(JoinError) of a worker that panicked.
WorkerPanic == <<"<panicked>">>

\* The worker ends: Ok(html), an Err that unwrap_or_else turns into the
\* generic message, or a panic.
WorkerEnds(r, res) ==
    /\ local' = [local EXCEPT ![r].response = res]
    /\ Goto(r, "join")

\* write_all has handed over every byte and returns Ok; spawn_blocking starts
\* the worker, which builds its client: let client = off::v2().build()?;
SpawnBlocking(r) ==
    /\ pc[r] = "write"
    /\ local[r].sent = Len(local[r].file_data)
    /\ \E ok \in BOOLEAN :
         IF ok THEN Goto(r, "w_decode") /\ UNCHANGED <<local, log>>
               ELSE WorkerEnds(r, Generic) /\ Notes(r, <<"build_failed">>)
    /\ UNCHANGED <<file, response, touched, pre>>
    /\ UNCHANGED fsvars /\ UNCHANGED fmtvars

\* let bar_code = rxing::helpers::detect_in_file(file_name, None)?;
DetectInFile(r) ==
    /\ pc[r] = "w_decode"
    /\ LET c == View[local[r].file_name] IN
         IF c # NoFile /\ HasBarcode(c)
           THEN Goto(r, "w_lookup") /\ UNCHANGED local /\ Notes(r, <<"decode">>)
           ELSE WorkerEnds(r, Generic) /\ Notes(r, <<"decode", "decode_failed">>)
    /\ UNCHANGED <<file, response, touched, pre>>
    /\ UNCHANGED fsvars /\ UNCHANGED fmtvars

\* let response = client.product(code, None).unwrap();  a failed lookup
\* panics the worker.  Then response.json::<HashMap<String, Value>>()? parses
\* the body (parsed) or fails.
Product(r) ==
    /\ pc[r] = "w_lookup"
    /\ \/ \E id \in DocIds, parsed \in BOOLEAN :
            IF parsed
              THEN /\ local' = [local EXCEPT ![r].docid = id]
                   /\ Goto(r, "w_save")
                   /\ Notes(r, <<"lookup">>)
              ELSE /\ WorkerEnds(r, Generic)
                   /\ Notes(r, <<"lookup", "parse_failed">>)
       \/ /\ WorkerEnds(r, WorkerPanic)
          /\ Notes(r, <<"lookup", "lookup_failed">>)
    /\ UNCHANGED <<file, response, touched, pre>>
    /\ UNCHANGED fsvars /\ UNCHANGED fmtvars

\* fs::write("res.json", &result_json.to_string())?;  then the six
\* extractions and Ok(format!(...)).
WriteResJson(r) ==
    /\ pc[r] = "w_save"
    /\ \E ok \in BOOLEAN :
         IF ok
           THEN LET i == CreatedInode("res.json") IN
                /\ i <= MaxInode
                /\ dir' = [dir EXCEPT !["res.json"] = i]
                /\ content' = [content EXCEPT ![i] = <<local[r].docid>>]
                /\ nextInode' = IF dir["res.json"] = 0 THEN nextInode + 1 ELSE nextInode
                /\ touched' = [touched EXCEPT ![r] = @ \cup {i}]
                /\ WorkerEnds(r, FormatHtml(DocOf(local[r].docid)))
                /\ Notes(r, <<"format">>)
           ELSE /\ WorkerEnds(r, Generic)
                /\ Notes(r, <<"save_failed">>)
                /\ UNCHANGED touched
                /\ UNCHANGED fsvars
    /\ UNCHANGED <<file, response, pre>>
    /\ UNCHANGED fmtvars

\* spawn_blocking(..).await.unwrap(): a worker that panicked panics the handler.
Join(r) ==
    /\ pc[r] = "join"
    /\ IF local[r].response = WorkerPanic
         THEN Panic(r)
         ELSE Goto(r, "remove") /\ UNCHANGED <<local, file>>
    /\ UNCHANGED histvars /\ UNCHANGED fsvars /\ UNCHANGED fmtvars

\* tokio::fs::remove_file(file_name).await.unwrap(); Html(response)
RemoveFile(r) ==
    /\ pc[r] = "remove"
    /\ LET name == local[r].file_name IN
       IF dir[name] = 0
         THEN /\ Panic(r)
              /\ UNCHANGED <<log, dir, content, response>>
         ELSE /\ dir' = [dir EXCEPT ![name] = 0]
              /\ content' = [content EXCEPT ![dir[name]] = <<>>]
              /\ Return(r, local[r].response)
              /\ Notes(r, <<"delete", "respond">>)
    /\ UNCHANGED <<nextInode, touched, pre>>
    /\ UNCHANGED fmtvars

upload(r) ==
    \/ Begin(r) \/ NextFieldErr(r) \/ NextField(r) \/ EndOfFields(r)
    \/ Create(r) \/ PollWrite(r) \/ WriteComplete(r) \/ SpawnBlocking(r)
    \/ Join(r) \/ RemoveFile(r)

create_nutrional_facts_file(r) ==
    \/ DetectInFile(r) \/ Product(r) \/ WriteResJson(r)

Next == \E r \in Reqs : upload(r) \/ create_nutrional_facts_file(r)

Spec == Init /\ [][Next]_vars

\* ------------------------------------------------------------ claims
Count(r, ev) == Cardinality({i \in DOMAIN log[r] : log[r][i] = ev})

\* The steps of the pipeline, in the order the claim gives them.
Rank(ev) ==
    CASE ev = "fields_read" -> 1
      [] ev = "create" -> 2
      [] ev = "decode" -> 3
      [] ev = "lookup" -> 4
      [] ev = "format" -> 5
      [] ev = "delete" -> 6
      [] ev = "respond" -> 7
      [] OTHER -> 0
Ordered(l) ==
    \A i, j \in DOMAIN l :
        (i < j /\ Rank(l[i]) > 0 /\ Rank(l[j]) > 0) => Rank(l[i]) < Rank(l[j])

\* Every byte of file_data has reached the file.
WriteOver(r) ==
    file[r].inflight = <<>> /\ file[r].pos = Len(local[r].file_data)

\* C1: a request that created its temp file has removed it when it ends, on
\* every path.
C1_TempFileRemoved ==
    \A r \in Reqs : (Ended(r) /\ Has(r, "create")) => Has(r, "delete")

\* C2: a request whose barcode decode, product lookup or response parsing
\* failed ends by returning the generic message.
C2_GenericOnFailure ==
    \A r \in Reqs :
        (Ended(r) /\ (Has(r, "decode_failed") \/ Has(r, "lookup_failed")
                        \/ Has(r, "parse_failed")))
            => (pc[r] = "done" /\ response[r] = Generic)

\* C3: the steps of a request happen in the order fields read, file written,
\* decode, lookup, format, delete, respond; the decode never starts before the
\* write is over.
C3_StepsInOrder ==
    [][\A r \in Reqs :
          /\ (pc[r] = "w_decode" /\ pc'[r] # "w_decode") => WriteOver(r)
          /\ Ordered(log'[r])]_vars

\* C4: once a request has completed, the directory holds no file that the
\* request created or wrote.
C4_NothingStored ==
    \A r \in Reqs : pc[r] = "done" => \A n \in Names : dir[n] \notin touched[r]

\* C5: a request (with a well-formed body) in which a field with a non-image
\* content type was met returns the only-images message, and has created or
\* written no file and run neither the decode nor the lookup.
C5_NonImageRejected ==
    \A r \in Reqs :
        (Ended(r) /\ Has(r, "nonimage") /\ ~Has(r, "malformed"))
            => /\ pc[r] = "done" /\ response[r] = OnlyImages
               /\ touched[r] = {}
               /\ ~Has(r, "decode") /\ ~Has(r, "lookup")

\* C6: a request of one or more image fields creates exactly one temp file,
\* runs at most one decode and one lookup, and returns one string.
C6_OneImage ==
    \A r \in Reqs :
        (Ended(r) /\ Has(r, "image") /\ Has(r, "fields_read"))
            => /\ Count(r, "create") = 1
               /\ Count(r, "decode") <= 1 /\ Count(r, "lookup") <= 1
               /\ pc[r] = "done" /\ response[r] # <<>>

\* C8: requests do not interfere through the temp file: when a request's
\* decode reads its file, the file holds what that request has written to it,
\* and when it removes its file, the file is there.
C8_NoInterference ==
    [][\A r \in Reqs :
          /\ (pc[r] = "w_decode" /\ pc'[r] # "w_decode")
                => View[local[r].file_name]
                      = SubSeq(local[r].file_data, 1, file[r].pos)
          /\ (pc[r] = "remove" /\ pc'[r] # "remove")
                => dir[local[r].file_name] # 0]_vars

\* C9: a request leaves every file that was there before it began in place
\* and unchanged: when it completes, each of the server's own files that was
\* intact when it began, and that no other request has created over, written
\* or removed, is intact.
C9_ServerFilesKept ==
    [][\A r \in Reqs :
          (pc[r] # "done" /\ pc'[r] = "done")
              => \A n \in pre[r] :
                    (\A q \in Reqs \ {r} : InitDir[n] \notin touched[q])
                        => View'[n] = InitView[n]]_vars

\* C10: every request with a well-formed multipart body ends with a response,
\* never in an aborted handler.
C10_AlwaysResponds ==
    \A r \in Reqs : pc[r] = "aborted" => Has(r, "malformed")

\* ------------------------------------------------ two lookups compared
\* Two lookups answer with documents docA and docB; the database may answer
\* with a document changed at any slot.  shown counts the fields, in the order
\* of Fields, for which a pair of documents has come up that differs in that
\* extracted value alone and formats to different HTML.
Slots == KindSlots \cup LeafSlots
Values(slot) == IF slot \in KindSlots THEN Kinds ELSE Leaves

Shown(a, b) ==
    IF shown < Len(Fields) /\ Differ(a, b) = {shown + 1} /\ FormatHtml(a) # FormatHtml(b)
      THEN shown + 1 ELSE shown

Answer(a, b) ==
    /\ edits < MaxEdits
    /\ docA' = a /\ docB' = b
    /\ edits' = edits + 1
    /\ shown' = Shown(a, b)
    /\ UNCHANGED <<pc, local, file>> /\ UNCHANGED histvars /\ UNCHANGED fsvars

AnswerA == \E slot \in Slots : \E v \in Values(slot) \ {docA[slot]} :
              Answer([docA EXCEPT ![slot] = v], docB)
AnswerB == \E slot \in Slots : \E v \in Values(slot) \ {docB[slot]} :
              Answer(docA, [docB EXCEPT ![slot] = v])

\* Two further lookups, both answered with the base document.
NewPair ==
    /\ edits > 0
    /\ docA' = BaseDoc /\ docB' = BaseDoc /\ edits' = 0
    /\ UNCHANGED shown
    /\ UNCHANGED <<pc, local, file>> /\ UNCHANGED histvars /\ UNCHANGED fsvars

NextFormat == AnswerA \/ AnswerB \/ NewPair

SpecFormat == Init /\ [][NextFormat]_vars

\* C7 (as stated): the HTML is decided by five extracted fields, so at most
\* five fields can each, changed alone, change the HTML.
C7_FiveFieldsDecide == shown <= 5

\* C7 (amended): the HTML is decided by the six values extracted from the
\* document: two responses that agree on all six format to the same HTML.
C7_SixFieldsDecide == Differ(docA, docB) = {} => FormatHtml(docA) = FormatHtml(docB)

\* Two different documents that agree on the six extracted values.
C7_Witness == docA # docB /\ Differ(docA, docB) = {} /\ edits > 0
====
